---- MODULE Spec2Model ----
(***************************************************************************)
(* Model of the pixelartsvfx backend: the admin accounts with their login  *)
(* guard (failed-attempt counter and timed lock), the admin management     *)
(* routes, and the media routes with the hero-image designation.           *)
(*                                                                         *)
(* Stored documents are functions from field names to values, so that a    *)
(* field that was never written, or that $unset removed, is simply not in  *)
(* the document's DOMAIN.  The clock counts lock periods of 2 hours.       *)
(***************************************************************************)
EXTENDS Integers, Sequences, FiniteSets, TLC

VARIABLES
  admins,      \* the Admin collection: _id -> stored document
  adminSeq,    \* number of Admin documents created so far (the last _id)
  tokens,      \* the adminIds for which a signed token has been issued
  media,       \* the Media collection: _id -> stored document
  mediaSeq,    \* number of Media documents created so far (the last _id)
  now,         \* Date.now()
  strictQuery, \* mongoose's strictQuery setting of the installed version
  req,         \* the request handled last
  res,         \* the response sent last
  script,      \* the position in the end-to-end scenario being played
  pending      \* the requests suspended at an await: slot -> what the request holds

vars == <<admins, adminSeq, tokens, media, mediaSeq, now, strictQuery, req, res, script,
         pending>>

-----------------------------------------------------------------------------
(* Bounds of the model *)

MaxTime == 2
MaxAdmins == 2
MaxMediaTime == 2
MaxMedia == 2
MaxRace == 2

(* Program constants *)

MAX_LOGIN_ATTEMPTS == 5
\* 2 * 60 * 60 * 1000 ms: one unit of the clock
LOCK_TIME == 1
MIN_USERNAME == 3
MIN_PASSWORD == 6

NoToken == 0

-----------------------------------------------------------------------------
(* Documents *)

\* a collection, or a document, with nothing in it
NoDocs == [id \in {} |-> id]

Has(doc, k) == k \in DOMAIN doc

\* $set of one path
SetPath(doc, k, v) == [x \in DOMAIN doc \cup {k} |-> IF x = k THEN v ELSE doc[x]]

\* $unset of some paths
UnsetPaths(doc, ks) == [x \in DOMAIN doc \ ks |-> doc[x]]

\* $inc of one path: a missing field counts as 0
IncPath(doc, k, n) == SetPath(doc, k, (IF Has(doc, k) THEN doc[k] ELSE 0) + n)

\* the paths of update `upd` written over `doc`
Merge(doc, upd) == [x \in DOMAIN doc \cup DOMAIN upd |-> IF x \in DOMAIN upd THEN upd[x] ELSE doc[x]]

-----------------------------------------------------------------------------
(* Strings of the model, with the conversions the handlers apply to them *)

Usernames == {"admin", "ADMIN", "editor@pixelarts.com", "ab", "ghost"}
Passwords == {"admin123", "Editor1x", "abc"}

trim(s) == IF s = " admin" THEN "admin" ELSE s

toLowerCase(s) ==
  CASE s = "ADMIN" -> "admin"
    [] s = "Editor" -> "editor"
    [] s = "Editor@Pixelarts.com" -> "editor@pixelarts.com"
    [] OTHER -> s

\* bcrypt.hash: one-way, equal only for equal inputs
hash(pw) == <<"bcrypt", pw>>

-----------------------------------------------------------------------------
(* The Admin model *)

\* a document as mongoose hands it to the code: schema defaults filled in
HydrateAdmin(doc) ==
  IF Has(doc, "loginAttempts") THEN doc ELSE SetPath(doc, "loginAttempts", 0)

NewAdmin(username, email, password, role) ==
  [k \in {"username", "email", "password", "role", "isActive", "loginAttempts"} |->
     CASE k = "username" -> trim(username)
       [] k = "email" -> toLowerCase(trim(email))
       [] k = "password" -> hash(password)
       [] k = "role" -> role
       [] k = "isActive" -> TRUE
       [] k = "loginAttempts" -> 0]

\* isLocked that takes any lock, expired or not
isLocked_AnyLock(admin, t) == Has(admin, "lockUntil")

\* isLocked with the comparison turned around
isLocked_Reversed(admin, t) == Has(admin, "lockUntil") /\ admin["lockUntil"] < t

isLocked(admin, t) == Has(admin, "lockUntil") /\ admin["lockUntil"] > t

comparePassword(admin, candidatePassword) ==
  IF candidatePassword = "" THEN FALSE ELSE hash(candidatePassword) = admin["password"]

\* incLoginAttempts with the threshold off by one
incLoginAttempts_LateLock(stored, admin, t) ==
  IF Has(admin, "lockUntil") /\ admin["lockUntil"] < t
  THEN SetPath(UnsetPaths(stored, {"lockUntil"}), "loginAttempts", 1)
  ELSE LET inc == IncPath(stored, "loginAttempts", 1)
       IN IF admin["loginAttempts"] + 1 > MAX_LOGIN_ATTEMPTS /\ ~isLocked(admin, t)
          THEN SetPath(inc, "lockUntil", t + LOCK_TIME)
          ELSE inc

\* incLoginAttempts that locks without counting the failure that locks
incLoginAttempts_NoIncAtLock(stored, admin, t) ==
  IF Has(admin, "lockUntil") /\ admin["lockUntil"] < t
  THEN SetPath(UnsetPaths(stored, {"lockUntil"}), "loginAttempts", 1)
  ELSE IF admin["loginAttempts"] + 1 >= MAX_LOGIN_ATTEMPTS /\ ~isLocked(admin, t)
       THEN SetPath(stored, "lockUntil", t + LOCK_TIME)
       ELSE IncPath(stored, "loginAttempts", 1)

\* incLoginAttempts without the restart after an expired lock
incLoginAttempts_NoRestart(stored, admin, t) ==
  LET inc == IncPath(stored, "loginAttempts", 1)
  IN IF admin["loginAttempts"] + 1 >= MAX_LOGIN_ATTEMPTS /\ ~isLocked(admin, t)
     THEN SetPath(inc, "lockUntil", t + LOCK_TIME)
     ELSE inc

\* the stored document after this.updateOne(...); `admin` is the loaded document
incLoginAttempts(stored, admin, t) ==
  IF Has(admin, "lockUntil") /\ admin["lockUntil"] < t
  THEN SetPath(UnsetPaths(stored, {"lockUntil"}), "loginAttempts", 1)
  ELSE LET inc == IncPath(stored, "loginAttempts", 1)
       IN IF admin["loginAttempts"] + 1 >= MAX_LOGIN_ATTEMPTS /\ ~isLocked(admin, t)
          THEN SetPath(inc, "lockUntil", t + LOCK_TIME)
          ELSE inc

\* resetLoginAttempts that clears the counter and keeps the lock
resetLoginAttempts_KeepLock(stored) == UnsetPaths(stored, {"loginAttempts"})

\* resetLoginAttempts that clears the lock and keeps the counter
resetLoginAttempts_KeepCounter(stored) == UnsetPaths(stored, {"lockUntil"})

resetLoginAttempts(stored) == UnsetPaths(stored, {"loginAttempts", "lockUntil"})

updateLastLogin(stored, t) == SetPath(stored, "lastLogin", t)

\* toJSON that deletes the password only
toJSON_KeepGuard(admin) == UnsetPaths(admin, {"password"})

\* the admin without the fields toJSON deletes
toJSON(admin) == UnsetPaths(admin, {"password", "loginAttempts", "lockUntil"})

createDefaultAdmin ==
  IF adminSeq = 0
  THEN [a \in {1} |-> NewAdmin("admin", "admin@pixelarts.com", "admin123", "superadmin")]
  ELSE admins

-----------------------------------------------------------------------------
(* middleware/auth *)

generateToken(adminId) == adminId

\* 0 when the request is passed on to the handler, else the status sent
\* verifyToken without the isLocked test
verifyToken_NoLockTest(token) ==
  IF token = NoToken THEN 401
  ELSE IF token \notin tokens THEN 401
  ELSE IF token \notin DOMAIN admins THEN 401
  ELSE IF ~admins[token]["isActive"] THEN 401
  ELSE 0

verifyToken(token) ==
  IF token = NoToken THEN 401
  ELSE IF token \notin tokens THEN 401
  ELSE IF token \notin DOMAIN admins THEN 401
  ELSE IF ~admins[token]["isActive"] THEN 401
  ELSE IF isLocked(admins[token], now) THEN 401
  ELSE 0

requireAdmin(token) ==
  IF admins[token]["role"] # "admin" /\ admins[token]["role"] # "superadmin" THEN 403 ELSE 0

requireSuperAdmin(token) ==
  IF admins[token]["role"] # "superadmin" THEN 403 ELSE 0

-----------------------------------------------------------------------------
(* POST /api/auth/login *)

LoginResponse(status, message, account, token, compared) ==
  [status |-> status, message |-> message, account |-> account,
   token |-> token, compared |-> compared]

LoginValid(username, password) ==
  /\ Len(trim(username)) >= MIN_USERNAME
  /\ Len(password) >= MIN_PASSWORD

\* Admin.findOne({$or: [{username}, {email}]}): the accounts the filter matches
findByLogin(username) ==
  {id \in DOMAIN admins :
     \/ admins[id]["username"] = toLowerCase(username)
     \/ admins[id]["email"] = toLowerCase(username)}

\* a reply that tells a wrong password from an unknown account
LoginReply_Reveals(status, message, account, token, compared, loaded) ==
  Merge(LoginResponse(status, IF status = 401 /\ compared THEN "Wrong password" ELSE message,
                      account, token, compared),
        [success |-> status = 200,
         admin |-> IF status = 200 THEN toJSON(loaded) ELSE NoDocs,
         loaded |-> loaded])

\* the response with its body: success, and on success data.admin; `loaded`
\* records the document the handler worked on
LoginReply(status, message, account, token, compared, loaded) ==
  Merge(LoginResponse(status, message, account, token, compared),
        [success |-> status = 200,
         admin |-> IF status = 200 THEN toJSON(loaded) ELSE NoDocs,
         loaded |-> loaded])

\* the store writes of the handler; `fail` names the one that throws
Writes == {"none", "inc", "reset", "lastLogin"}

\* a handler that ignores a failed write and carries on
LoginFoundWith_FailOpen(id, password, fail) ==
  LET admin == HydrateAdmin(admins[id]) IN
  IF isLocked(admin, now)
  THEN /\ res' = LoginReply(423, "Account is locked", id, NoToken, FALSE, admin)
       /\ UNCHANGED <<admins, tokens>>
  ELSE IF ~admin["isActive"]
  THEN /\ res' = LoginReply(401, "Account has been deactivated", id, NoToken, FALSE, admin)
       /\ UNCHANGED <<admins, tokens>>
  ELSE IF ~comparePassword(admin, password)
  THEN IF fail = "inc"
       THEN /\ res' = LoginReply(500, "Internal server error during login", id, NoToken,
                                 TRUE, admin)
            /\ UNCHANGED <<admins, tokens>>
       ELSE /\ admins' = [admins EXCEPT ![id] = incLoginAttempts(admins[id], admin, now)]
            /\ res' = LoginReply(401, "Invalid credentials", id, NoToken, TRUE, admin)
            /\ UNCHANGED tokens
  ELSE IF fail \in {"reset", "lastLogin"}
  THEN /\ tokens' = tokens \cup {generateToken(id)}
       /\ res' = LoginReply(200, "Login successful", id, generateToken(id), TRUE, admin)
       /\ UNCHANGED admins
  ELSE /\ admins' = [admins EXCEPT ![id] = updateLastLogin(resetLoginAttempts(admins[id]), now)]
       /\ tokens' = tokens \cup {generateToken(id)}
       /\ res' = LoginReply(200, "Login successful", id, generateToken(id), TRUE, admin)

\* the handler from the lock check on; a write that throws ends in the catch
LoginFoundWith(id, password, fail) ==
  LET admin == HydrateAdmin(admins[id]) IN
  IF isLocked(admin, now)
  THEN /\ res' = LoginReply(423, "Account is locked", id, NoToken, FALSE, admin)
       /\ UNCHANGED <<admins, tokens>>
  ELSE IF ~admin["isActive"]
  THEN /\ res' = LoginReply(401, "Account has been deactivated", id, NoToken, FALSE, admin)
       /\ UNCHANGED <<admins, tokens>>
  ELSE IF ~comparePassword(admin, password)
  THEN IF fail = "inc"
       THEN /\ res' = LoginReply(500, "Internal server error during login", id, NoToken,
                                 TRUE, admin)
            /\ UNCHANGED <<admins, tokens>>
       ELSE /\ admins' = [admins EXCEPT ![id] = incLoginAttempts(admins[id], admin, now)]
            /\ res' = LoginReply(401, "Invalid credentials", id, NoToken, TRUE, admin)
            /\ UNCHANGED tokens
  ELSE IF fail = "reset"
  THEN /\ res' = LoginReply(500, "Internal server error during login", id, NoToken, TRUE, admin)
       /\ UNCHANGED <<admins, tokens>>
  ELSE IF fail = "lastLogin"
  THEN /\ admins' = [admins EXCEPT ![id] = resetLoginAttempts(admins[id])]
       /\ res' = LoginReply(500, "Internal server error during login", id, NoToken, TRUE, admin)
       /\ UNCHANGED tokens
  ELSE /\ admins' = [admins EXCEPT ![id] = updateLastLogin(resetLoginAttempts(admins[id]), now)]
       /\ tokens' = tokens \cup {generateToken(id)}
       /\ res' = LoginReply(200, "Login successful", id, generateToken(id), TRUE, admin)

LoginFound(id, password) == LoginFoundWith(id, password, "none")

LoginWith(username, password, fail) ==
  /\ req' = [op |-> "login", username |-> username, password |-> password, fail |-> fail]
  /\ IF ~LoginValid(username, password)
     THEN /\ res' = LoginReply(400, "Validation failed", 0, NoToken, FALSE, NoDocs)
          /\ UNCHANGED <<admins, tokens>>
     ELSE IF findByLogin(trim(username)) = {}
     THEN /\ res' = LoginReply(401, "Invalid credentials", 0, NoToken, FALSE, NoDocs)
          /\ UNCHANGED <<admins, tokens>>
     ELSE \E id \in findByLogin(trim(username)) : LoginFoundWith(id, password, fail)
  /\ UNCHANGED <<adminSeq, media, mediaSeq, now, strictQuery>>

Login(username, password) == LoginWith(username, password, "none")

-----------------------------------------------------------------------------
(* POST /api/auth/login as the awaits it is made of: a request is suspended
   after the account is loaded and checked, and resumed at the password
   comparison and the guard write *)

\* the handler up to the active check: it answers when a check fails and is
\* otherwise left holding the document that findOne returned
LoginLoad(username, password) ==
  IF ~LoginValid(username, password) \/ findByLogin(trim(username)) = {}
  THEN Login(username, password) /\ UNCHANGED pending
  ELSE \E id \in findByLogin(trim(username)) :
         LET admin == HydrateAdmin(admins[id])
             slot == Cardinality(DOMAIN pending) + 1
         IN IF isLocked(admin, now) \/ ~admin["isActive"]
            THEN /\ req' = [op |-> "login", username |-> username, password |-> password,
                            fail |-> "none"]
                 /\ LoginFound(id, password)
                 /\ UNCHANGED <<adminSeq, media, mediaSeq, now, strictQuery, pending>>
            ELSE /\ pending' = [s \in DOMAIN pending \cup {slot} |->
                                  IF s = slot
                                  THEN [id |-> id, admin |-> admin, stored |-> admins[id],
                                        password |-> password, done |-> FALSE]
                                  ELSE pending[s]]
                 /\ req' = [op |-> "login", username |-> username, password |-> password,
                            fail |-> "none"]
                 /\ res' = [status |-> 0]
                 /\ UNCHANGED <<admins, adminSeq, tokens, media, mediaSeq, now, strictQuery>>

\* the rest of the handler for the request in slot s: comparePassword on the
\* loaded document, then the guard write on the stored document and the answer
LoginFinish(s) ==
  LET id == pending[s].id
      admin == pending[s].admin
  IN
  /\ ~pending[s].done
  /\ id \in DOMAIN admins
  /\ pending' = [pending EXCEPT ![s].done = TRUE]
  /\ req' = [op |-> "login", username |-> admin["username"],
             password |-> pending[s].password, fail |-> "none"]
  /\ IF ~comparePassword(admin, pending[s].password)
     THEN /\ admins' = [admins EXCEPT ![id] = incLoginAttempts(admins[id], admin, now)]
          /\ res' = LoginReply(401, "Invalid credentials", id, NoToken, TRUE, admin)
          /\ UNCHANGED tokens
     ELSE /\ admins' = [admins EXCEPT
                          ![id] = updateLastLogin(resetLoginAttempts(admins[id]), now)]
          /\ tokens' = tokens \cup {generateToken(id)}
          /\ res' = LoginReply(200, "Login successful", id, generateToken(id), TRUE, admin)
  /\ UNCHANGED <<adminSeq, media, mediaSeq, now, strictQuery>>

-----------------------------------------------------------------------------
(* POST /api/auth/register *)

UsernamePattern(username) == username \in {"editor", "Editor", "admin", "ADMIN", "ghost", "ab"}

PasswordPattern(password) == password \in {"Editor1x"}

RegisterValid(username, email, password, role) ==
  /\ Len(trim(username)) >= MIN_USERNAME
  /\ UsernamePattern(trim(username))
  /\ Len(password) >= MIN_PASSWORD
  /\ PasswordPattern(password)
  /\ role \in {"admin", "superadmin"}

\* normalizeEmail lower-cases the address
normalizeEmail(email) == toLowerCase(email)

Register(token, username, email, password, role) ==
  /\ req' = [op |-> "register", token |-> token, username |-> username, role |-> role]
  /\ IF verifyToken(token) # 0
     THEN /\ res' = [status |-> verifyToken(token), id |-> 0]
          /\ UNCHANGED <<admins, adminSeq>>
     ELSE IF admins[token]["role"] # "superadmin"
     THEN /\ res' = [status |-> 403, id |-> 0]
          /\ UNCHANGED <<admins, adminSeq>>
     ELSE IF ~RegisterValid(username, email, password, role)
     THEN /\ res' = [status |-> 400, id |-> 0]
          /\ UNCHANGED <<admins, adminSeq>>
     ELSE IF \E id \in DOMAIN admins :
                \/ admins[id]["username"] = trim(username)
                \/ admins[id]["email"] = normalizeEmail(email)
     THEN /\ res' = [status |-> 400, id |-> 0]
          /\ UNCHANGED <<admins, adminSeq>>
     ELSE /\ adminSeq' = adminSeq + 1
          /\ admins' = [id \in DOMAIN admins \cup {adminSeq + 1} |->
                          IF id = adminSeq + 1
                          THEN NewAdmin(username, normalizeEmail(email), password, role)
                          ELSE admins[id]]
          /\ res' = [status |-> 201, id |-> adminSeq + 1]
  /\ UNCHANGED <<tokens, media, mediaSeq, now, strictQuery>>

-----------------------------------------------------------------------------
(* PUT /api/auth/profile *)

\* username and email are "absent" when the body does not carry the field
ProfileValid(username) ==
  username # "absent" => Len(trim(username)) >= MIN_USERNAME

\* Admin.findOne(query): _id other than the caller's and every given field equal
findTaken(adminId, username, email) ==
  {id \in DOMAIN admins \ {adminId} :
     /\ username # "absent" => admins[id]["username"] = username
     /\ email # "absent" => admins[id]["email"] = email}

\* the unique indexes of the schema refuse the update
duplicateKey(adminId, username, email) ==
  \E id \in DOMAIN admins \ {adminId} :
    \/ username # "absent" /\ admins[id]["username"] = username
    \/ email # "absent" /\ admins[id]["email"] = email

ProfileResponse(status, message) == [status |-> status, message |-> message]

UpdateProfile(token, username, email) ==
  LET u == IF username = "absent" THEN "absent" ELSE trim(username)
      e == IF email = "absent" THEN "absent" ELSE normalizeEmail(email)
      d1 == IF u # "absent" THEN SetPath(admins[token], "username", u) ELSE admins[token]
      d2 == IF e # "absent" THEN SetPath(d1, "email", e) ELSE d1
  IN
  /\ req' = [op |-> "profile", token |-> token, username |-> username, email |-> email]
  /\ IF verifyToken(token) # 0
     THEN /\ res' = ProfileResponse(verifyToken(token), "Access denied")
          /\ UNCHANGED admins
     ELSE IF ~ProfileValid(username)
     THEN /\ res' = ProfileResponse(400, "Validation failed")
          /\ UNCHANGED admins
     ELSE IF (u # "absent" \/ e # "absent") /\ findTaken(token, u, e) # {}
     THEN /\ res' = ProfileResponse(400, "Username or email already taken")
          /\ UNCHANGED admins
     ELSE IF duplicateKey(token, u, e)
     THEN /\ res' = ProfileResponse(500, "Internal server error")
          /\ UNCHANGED admins
     ELSE /\ admins' = [admins EXCEPT ![token] = d2]
          /\ res' = ProfileResponse(200, "Profile updated successfully")
  /\ UNCHANGED <<adminSeq, tokens, media, mediaSeq, now, strictQuery>>

-----------------------------------------------------------------------------
(* PUT /api/admin/admins/:id/status *)

UpdateStatus(token, id, isActive) ==
  /\ req' = [op |-> "status", token |-> token, id |-> id, isActive |-> isActive]
  /\ IF verifyToken(token) # 0
     THEN /\ res' = [status |-> verifyToken(token)]
          /\ UNCHANGED admins
     ELSE IF requireSuperAdmin(token) # 0
     THEN /\ res' = [status |-> requireSuperAdmin(token)]
          /\ UNCHANGED admins
     ELSE IF id = token
     THEN /\ res' = [status |-> 400]
          /\ UNCHANGED admins
     ELSE IF id \notin DOMAIN admins
     THEN /\ res' = [status |-> 404]
          /\ UNCHANGED admins
     ELSE /\ admins' = [admins EXCEPT ![id] = SetPath(admins[id], "isActive", isActive)]
          /\ res' = [status |-> 200]
  /\ UNCHANGED <<adminSeq, tokens, media, mediaSeq, now, strictQuery>>

-----------------------------------------------------------------------------
(* DELETE /api/admin/admins/:id *)

countUploadedBy_None(adminId) == 0

\* Media.countDocuments({ uploadedBy: adminId })
countUploadedBy(adminId) ==
  Cardinality({m \in DOMAIN media : media[m]["uploadedBy"] = adminId})

DeleteAdmin(token, id) ==
  /\ req' = [op |-> "deleteAdmin", token |-> token, id |-> id]
  /\ IF verifyToken(token) # 0
     THEN /\ res' = [status |-> verifyToken(token)]
          /\ UNCHANGED admins
     ELSE IF requireSuperAdmin(token) # 0
     THEN /\ res' = [status |-> requireSuperAdmin(token)]
          /\ UNCHANGED admins
     ELSE IF id = token
     THEN /\ res' = [status |-> 400]
          /\ UNCHANGED admins
     ELSE IF id \notin DOMAIN admins
     THEN /\ res' = [status |-> 404]
          /\ UNCHANGED admins
     ELSE IF countUploadedBy(id) > 0
     THEN /\ res' = [status |-> 400]
          /\ UNCHANGED admins
     ELSE /\ admins' = [a \in DOMAIN admins \ {id} |-> admins[a]]
          /\ res' = [status |-> 200]
  /\ UNCHANGED <<adminSeq, tokens, media, mediaSeq, now, strictQuery>>

-----------------------------------------------------------------------------
(* routes/admin.js: DELETE /api/admin/admins/:id as the two store operations it
   awaits, and reset-admin.js *)

\* the request up to Media.countDocuments: it answers when a check fails and
\* is otherwise left at the await before findByIdAndDelete
DeleteAdminCheck(token, id) ==
  IF /\ verifyToken(token) = 0
     /\ requireSuperAdmin(token) = 0
     /\ id # token
     /\ id \in DOMAIN admins
     /\ countUploadedBy(id) = 0
  THEN /\ pending' = [s \in {1} |-> [op |-> "deleteAdmin", token |-> token, id |-> id]]
       /\ req' = [op |-> "deleteAdmin", token |-> token, id |-> id]
       /\ res' = [status |-> 0]
       /\ UNCHANGED <<admins, adminSeq, tokens, media, mediaSeq, now, strictQuery>>
  ELSE /\ DeleteAdmin(token, id)
       /\ UNCHANGED pending

\* Admin.findByIdAndDelete(adminId) and the answer
DeleteAdminFinish ==
  /\ pending # NoDocs
  /\ admins' = [a \in DOMAIN admins \ {pending[1].id} |-> admins[a]]
  /\ req' = pending[1]
  /\ res' = [status |-> 200]
  /\ pending' = NoDocs
  /\ UNCHANGED <<adminSeq, tokens, media, mediaSeq, now, strictQuery>>

\* reset-admin.js: Admin.deleteMany({}) and a new superadmin
resetAdmin ==
  /\ admins' = [a \in {adminSeq + 1} |->
                  NewAdmin("admin", "admin@pixelarts.com", "admin123", "superadmin")]
  /\ adminSeq' = adminSeq + 1
  /\ req' = [op |-> "resetAdmin"]
  /\ res' = [status |-> 0]
  /\ UNCHANGED <<tokens, media, mediaSeq, now, strictQuery>>

-----------------------------------------------------------------------------
(* routes/admin.js: the status and delete requests as the awaits they are made
   of: a request is suspended after verifyToken, requireSuperAdmin and the
   own-account check, and resumed at its store operations *)

\* PUT /admins/:id/status up to the own-account check
UpdateStatusAdmit(token, id, isActive) ==
  IF verifyToken(token) = 0 /\ requireSuperAdmin(token) = 0 /\ id # token
  THEN /\ pending' = [s \in DOMAIN pending \cup {Cardinality(DOMAIN pending) + 1} |->
                        IF s \in DOMAIN pending THEN pending[s]
                        ELSE [op |-> "status", token |-> token, id |-> id,
                              isActive |-> isActive, done |-> FALSE]]
       /\ req' = [op |-> "status", token |-> token, id |-> id, isActive |-> isActive]
       /\ res' = [status |-> 0]
       /\ UNCHANGED <<admins, adminSeq, tokens, media, mediaSeq, now, strictQuery>>
  ELSE /\ UpdateStatus(token, id, isActive)
       /\ UNCHANGED pending

\* DELETE /admins/:id up to the own-account check
DeleteAdminAdmit(token, id) ==
  IF verifyToken(token) = 0 /\ requireSuperAdmin(token) = 0 /\ id # token
  THEN /\ pending' = [s \in DOMAIN pending \cup {Cardinality(DOMAIN pending) + 1} |->
                        IF s \in DOMAIN pending THEN pending[s]
                        ELSE [op |-> "deleteAdmin", token |-> token, id |-> id,
                              isActive |-> FALSE, done |-> FALSE]]
       /\ req' = [op |-> "deleteAdmin", token |-> token, id |-> id]
       /\ res' = [status |-> 0]
       /\ UNCHANGED <<admins, adminSeq, tokens, media, mediaSeq, now, strictQuery>>
  ELSE /\ DeleteAdmin(token, id)
       /\ UNCHANGED pending

\* the store operations and the answer of the request in slot s:
\* findByIdAndUpdate, or findById, countDocuments and findByIdAndDelete
AdminResume(s) ==
  LET p == pending[s]
      id == p.id
  IN
  /\ ~p.done
  /\ pending' = [pending EXCEPT ![s].done = TRUE]
  /\ IF p.op = "status"
     THEN /\ req' = [op |-> "status", token |-> p.token, id |-> id, isActive |-> p.isActive]
          /\ IF id \notin DOMAIN admins
             THEN /\ res' = [status |-> 404]
                  /\ UNCHANGED admins
             ELSE /\ admins' = [admins EXCEPT
                                  ![id] = SetPath(admins[id], "isActive", p.isActive)]
                  /\ res' = [status |-> 200]
     ELSE /\ req' = [op |-> "deleteAdmin", token |-> p.token, id |-> id]
          /\ IF id \notin DOMAIN admins
             THEN /\ res' = [status |-> 404]
                  /\ UNCHANGED admins
             ELSE IF countUploadedBy(id) > 0
             THEN /\ res' = [status |-> 400]
                  /\ UNCHANGED admins
             ELSE /\ admins' = [a \in DOMAIN admins \ {id} |-> admins[a]]
                  /\ res' = [status |-> 200]
  /\ UNCHANGED <<adminSeq, tokens, media, mediaSeq, now, strictQuery>>

-----------------------------------------------------------------------------
(* The Media model *)

\* a schema that also declares isHeroImage
mediaSchemaPaths_WithHero ==
  {"title", "description", "type", "url", "thumbnailUrl", "cloudinaryPublicId",
   "fileSize", "dimensions", "duration", "mimeType", "tags", "category",
   "isActive", "isFeatured", "sortOrder", "viewCount", "uploadedBy", "metadata",
   "seo", "analytics", "createdAt", "updatedAt", "isHeroImage"}

\* the paths mediaSchema declares (createdAt and updatedAt by timestamps: true)
mediaSchemaPaths ==
  {"title", "description", "type", "url", "thumbnailUrl", "cloudinaryPublicId",
   "fileSize", "dimensions", "duration", "mimeType", "tags", "category",
   "isActive", "isFeatured", "sortOrder", "viewCount", "uploadedBy", "metadata",
   "seo", "analytics", "createdAt", "updatedAt"}

categoryEnum == {"showreel", "portfolio", "demo", "tutorial", "behind-scenes"}

typeEnum == {"image", "video"}

\* a constructor that keeps every path it is given
castDoc_KeepAll(obj) == obj

\* new Media(obj): the schema is strict, a path it does not declare is dropped
castDoc(obj) == [k \in DOMAIN obj \cap mediaSchemaPaths |-> obj[k]]

\* the update of updateMany, cast by the strict schema
castUpdate(upd) == [k \in DOMAIN upd \cap mediaSchemaPaths |-> upd[k]]

\* the filter of a query: cast by the schema when strictQuery is on
castFilter(filter) ==
  IF strictQuery
  THEN [k \in DOMAIN filter \cap mediaSchemaPaths |-> filter[k]]
  ELSE filter

\* doc.path = v on a loaded document: only a declared path belongs to the document
setProp(doc, k, v) == IF k \in mediaSchemaPaths THEN SetPath(doc, k, v) ELSE doc

matches(doc, filter) == \A k \in DOMAIN filter : Has(doc, k) /\ doc[k] = filter[k]

\* the enum validators that run on save
validate(doc) == doc["type"] \in typeEnum /\ doc["category"] \in categoryEnum

\* Media.updateMany(filter, upd) on the documents `ids`; timestamps sets updatedAt
updateMany(coll, ids, upd, t) ==
  [id \in DOMAIN coll |->
     IF id \in ids THEN SetPath(Merge(coll[id], castUpdate(upd)), "updatedAt", t)
     ELSE coll[id]]

\* save() of a new document
insert(coll, id, obj, t) ==
  [x \in DOMAIN coll \cup {id} |->
     IF x = id THEN SetPath(castDoc(obj), "updatedAt", t) ELSE coll[x]]

modifiedPaths(loaded, edited) ==
  {k \in DOMAIN edited : ~Has(loaded, k) \/ loaded[k] # edited[k]}

\* save() of a loaded document: only the modified paths are written, and nothing
\* at all when no path is modified; `touched` says a path outside the model
\* (url, title) was modified
save(coll, id, loaded, edited, touched, t) ==
  IF modifiedPaths(loaded, edited) = {} /\ ~touched
  THEN coll
  ELSE [coll EXCEPT ![id] =
          SetPath(Merge(coll[id], [k \in modifiedPaths(loaded, edited) |-> edited[k]]),
                  "updatedAt", t)]

deleteOne(coll, id) == [x \in DOMAIN coll \ {id} |-> coll[x]]

\* mimetype.startsWith("image/"), mimetype.startsWith("video/")
isImageFile(mimetype) == mimetype \in {"image/png"}
isVideoFile(mimetype) == mimetype \in {"video/mp4"}

HeroFalse == [isHeroImage |-> FALSE]

NewMedia(type, category, isHeroImage, uploadedBy) ==
  [type |-> type, category |-> category, isHeroImage |-> isHeroImage,
   isActive |-> TRUE, uploadedBy |-> uploadedBy]

\* the part_000 URL branch passes no isHeroImage to new Media
NewMediaNoFlag(type, category, uploadedBy) ==
  [type |-> type, category |-> category, isActive |-> TRUE, uploadedBy |-> uploadedBy]

MediaResponse(status, id) == [status |-> status, id |-> id]

-----------------------------------------------------------------------------
(* routes/media.js: POST /api/media *)

\* r: [file, url, type, isHeroImage, category, uploadOk]
CreateMedia(token, r) ==
  LET category == IF r.category = "absent" THEN "showreel" ELSE r.category
      isHeroImage == r.isHeroImage = "true" \/ category = "hero-image"
      swept == IF isHeroImage THEN updateMany(media, DOMAIN media, HeroFalse, now) ELSE media
      id == mediaSeq + 1
      fileDoc == NewMedia(IF isVideoFile(r.file) THEN "video" ELSE "image",
                          category, isHeroImage, token)
      urlDoc == NewMedia(IF r.type = "absent" THEN "image" ELSE r.type,
                         category, isHeroImage, token)
  IN
  /\ req' = [op |-> "createMedia", hero |-> r.isHeroImage = "true", file |-> r.file]
  /\ IF verifyToken(token) # 0
     THEN /\ res' = MediaResponse(verifyToken(token), 0)
          /\ UNCHANGED <<media, mediaSeq>>
     ELSE IF requireAdmin(token) # 0
     THEN /\ res' = MediaResponse(requireAdmin(token), 0)
          /\ UNCHANGED <<media, mediaSeq>>
     ELSE IF isHeroImage /\ r.file # "none" /\ ~isImageFile(r.file)
     THEN /\ res' = MediaResponse(400, 0)
          /\ UNCHANGED <<media, mediaSeq>>
     ELSE IF r.file # "none"
     THEN IF ~r.uploadOk \/ ~validate(castDoc(fileDoc))
          THEN /\ media' = swept
               /\ res' = MediaResponse(500, 0)
               /\ UNCHANGED mediaSeq
          ELSE /\ media' = insert(swept, id, fileDoc, now)
               /\ mediaSeq' = id
               /\ res' = MediaResponse(201, id)
     ELSE IF r.url
     THEN IF isHeroImage /\ r.type # "image"
          THEN /\ media' = swept
               /\ res' = MediaResponse(400, 0)
               /\ UNCHANGED mediaSeq
          ELSE IF ~validate(castDoc(urlDoc))
          THEN /\ media' = swept
               /\ res' = MediaResponse(500, 0)
               /\ UNCHANGED mediaSeq
          ELSE /\ media' = insert(swept, id, urlDoc, now)
               /\ mediaSeq' = id
               /\ res' = MediaResponse(201, id)
     ELSE /\ media' = swept
          /\ res' = MediaResponse(400, 0)
          /\ UNCHANGED mediaSeq
  /\ UNCHANGED <<admins, adminSeq, tokens, now, strictQuery>>

-----------------------------------------------------------------------------
(* routes/media.js: PUT /api/media/:id *)

\* r: [file, isHeroImage, category, isActive, uploadOk]
UpdateMedia(token, id, r) ==
  LET loaded == media[id]
      newCategory == IF r.category = "absent" THEN loaded["category"] ELSE r.category
      newIsHeroImage == r.isHeroImage = "true" \/ newCategory = "hero-image"
      isImage == IF r.file # "none" THEN isImageFile(r.file) ELSE loaded["type"] = "image"
      swept == IF newIsHeroImage /\ isImage
               THEN updateMany(media, DOMAIN media \ {id}, HeroFalse, now)
               ELSE media
      d1 == IF r.file # "none"
            THEN setProp(loaded, "type", IF isVideoFile(r.file) THEN "video" ELSE "image")
            ELSE loaded
      d2 == IF r.category # "absent" THEN setProp(d1, "category", newCategory) ELSE d1
      d3 == IF r.isActive # "absent" THEN setProp(d2, "isActive", r.isActive = "true") ELSE d2
      edited == setProp(d3, "isHeroImage", newIsHeroImage)
  IN
  /\ req' = [op |-> "updateMedia", hero |-> r.isHeroImage = "true", file |-> r.file,
             flag |-> r.isHeroImage]
  /\ IF verifyToken(token) # 0
     THEN /\ res' = MediaResponse(verifyToken(token), 0)
          /\ UNCHANGED media
     ELSE IF requireAdmin(token) # 0
     THEN /\ res' = MediaResponse(requireAdmin(token), 0)
          /\ UNCHANGED media
     ELSE IF id \notin DOMAIN media
     THEN /\ res' = MediaResponse(404, 0)
          /\ UNCHANGED media
     ELSE IF newIsHeroImage /\ ~isImage
     THEN /\ res' = MediaResponse(400, 0)
          /\ UNCHANGED media
     ELSE IF r.file # "none" /\ ~r.uploadOk
     THEN /\ media' = swept
          /\ res' = MediaResponse(500, 0)
     ELSE IF ~validate(edited)
     THEN /\ media' = swept
          /\ res' = MediaResponse(500, 0)
     ELSE /\ media' = save(swept, id, loaded, edited, r.file # "none", now)
          /\ res' = MediaResponse(200, id)
  /\ UNCHANGED <<admins, adminSeq, tokens, mediaSeq, now, strictQuery>>

-----------------------------------------------------------------------------
(* routes/media.js: PUT /api/media/:id as the awaits it is made of: a request
   is suspended after its sweep and resumed at the upload, the field
   assignments and the save *)

\* the handler up to the sweep: it answers when a check fails and is otherwise
\* left holding the document that findById returned
UpdateMediaSweep(token, id, r) ==
  LET loaded == media[id]
      newCategory == IF r.category = "absent" THEN loaded["category"] ELSE r.category
      newIsHeroImage == r.isHeroImage = "true" \/ newCategory = "hero-image"
      isImage == IF r.file # "none" THEN isImageFile(r.file) ELSE loaded["type"] = "image"
      slot == Cardinality(DOMAIN pending) + 1
  IN
  IF /\ verifyToken(token) = 0
     /\ requireAdmin(token) = 0
     /\ id \in DOMAIN media
     /\ ~(newIsHeroImage /\ ~isImage)
  THEN /\ media' = IF newIsHeroImage /\ isImage
                   THEN updateMany(media, DOMAIN media \ {id}, HeroFalse, now)
                   ELSE media
       /\ pending' = [s \in DOMAIN pending \cup {slot} |->
                        IF s = slot
                        THEN [id |-> id, r |-> r, loaded |-> loaded, done |-> FALSE,
                              status |-> 0]
                        ELSE pending[s]]
       /\ req' = [op |-> "updateMedia", hero |-> r.isHeroImage = "true", file |-> r.file,
                  flag |-> r.isHeroImage]
       /\ res' = [status |-> 0]
       /\ UNCHANGED <<admins, adminSeq, tokens, mediaSeq, now, strictQuery>>
  ELSE /\ UpdateMedia(token, id, r)
       /\ UNCHANGED pending

\* the rest of the handler for the request in slot s, on the loaded document
UpdateMediaSave(s) ==
  LET id == pending[s].id
      r == pending[s].r
      loaded == pending[s].loaded
      newCategory == IF r.category = "absent" THEN loaded["category"] ELSE r.category
      newIsHeroImage == r.isHeroImage = "true" \/ newCategory = "hero-image"
      d1 == IF r.file # "none"
            THEN setProp(loaded, "type", IF isVideoFile(r.file) THEN "video" ELSE "image")
            ELSE loaded
      d2 == IF r.category # "absent" THEN setProp(d1, "category", newCategory) ELSE d1
      d3 == IF r.isActive # "absent" THEN setProp(d2, "isActive", r.isActive = "true") ELSE d2
      edited == setProp(d3, "isHeroImage", newIsHeroImage)
      status == IF id \notin DOMAIN media THEN 500
                ELSE IF r.file # "none" /\ ~r.uploadOk THEN 500
                ELSE IF ~validate(edited) THEN 500
                ELSE 200
  IN
  /\ ~pending[s].done
  /\ pending' = [pending EXCEPT ![s].done = TRUE, ![s].status = status]
  /\ req' = [op |-> "updateMedia", hero |-> r.isHeroImage = "true", file |-> r.file,
             flag |-> r.isHeroImage]
  /\ res' = MediaResponse(status, IF status = 200 THEN id ELSE 0)
  /\ media' = IF status = 200
              THEN save(media, id, loaded, edited, r.file # "none", now)
              ELSE media
  /\ UNCHANGED <<admins, adminSeq, tokens, mediaSeq, now, strictQuery>>

-----------------------------------------------------------------------------
(* routes/media.js: DELETE /api/media/:id *)

DeleteMedia(token, id) ==
  /\ req' = [op |-> "deleteMedia"]
  /\ IF verifyToken(token) # 0
     THEN /\ res' = MediaResponse(verifyToken(token), 0)
          /\ UNCHANGED media
     ELSE IF requireAdmin(token) # 0
     THEN /\ res' = MediaResponse(requireAdmin(token), 0)
          /\ UNCHANGED media
     ELSE IF id \notin DOMAIN media
     THEN /\ res' = MediaResponse(404, 0)
          /\ UNCHANGED media
     ELSE /\ media' = deleteOne(media, id)
          /\ res' = MediaResponse(200, id)
  /\ UNCHANGED <<admins, adminSeq, tokens, mediaSeq, now, strictQuery>>

-----------------------------------------------------------------------------
(* routes/media.js: GET /api/media/hero-image *)

\* findOne(filter).sort({ updatedAt: -1 }): the matches updated last
findHero(filter) ==
  LET found == {id \in DOMAIN media : matches(media[id], castFilter(filter))}
  IN {id \in found : \A other \in found : media[other]["updatedAt"] <= media[id]["updatedAt"]}

GetHeroImage ==
  LET best == findHero([isHeroImage |-> TRUE, isActive |-> TRUE, type |-> "image"]) IN
  /\ req' = [op |-> "getHeroImage"]
  /\ IF best = {}
     THEN res' = [status |-> 200, success |-> FALSE, id |-> 0]
     ELSE \E id \in best : res' = [status |-> 200, success |-> TRUE, id |-> id]
  /\ UNCHANGED <<admins, adminSeq, tokens, media, mediaSeq, now, strictQuery>>

-----------------------------------------------------------------------------
(* routes/media.js: GET /api/media; the route has no middleware, the token of
   the request is not looked at *)

ListMedia(token) ==
  /\ req' = [op |-> "listMedia", token |-> token]
  /\ res' = [status |-> 200, success |-> TRUE, data |-> media]
  /\ UNCHANGED <<admins, adminSeq, tokens, media, mediaSeq, now, strictQuery>>

-----------------------------------------------------------------------------
(* routes/admin.js: PUT /api/admin/media/:id/toggle-status *)

ToggleStatus(token, id) ==
  /\ req' = [op |-> "toggleStatus"]
  /\ IF verifyToken(token) # 0
     THEN /\ res' = MediaResponse(verifyToken(token), 0)
          /\ UNCHANGED media
     ELSE IF id \notin DOMAIN media
     THEN /\ res' = MediaResponse(404, 0)
          /\ UNCHANGED media
     ELSE /\ media' = save(media, id, media[id],
                           setProp(media[id], "isActive", ~media[id]["isActive"]), TRUE, now)
          /\ res' = MediaResponse(200, id)
  /\ UNCHANGED <<admins, adminSeq, tokens, mediaSeq, now, strictQuery>>

-----------------------------------------------------------------------------
(* unnamed/part_000: POST /api/media *)

\* r: [file, url, type, isHeroImage, category, uploadOk]
CreateMedia0(token, r) ==
  LET category == IF r.category = "absent" THEN "showreel" ELSE r.category
      requested == r.isHeroImage = "true"
      isHeroImage == requested /\ isImageFile(r.file)
      swept == IF isHeroImage THEN updateMany(media, DOMAIN media, HeroFalse, now) ELSE media
      id == mediaSeq + 1
      fileDoc == NewMedia(IF isVideoFile(r.file) THEN "video" ELSE "image",
                          category, isHeroImage, token)
      urlDoc == NewMediaNoFlag(IF r.type = "absent" THEN "image" ELSE r.type, category, token)
  IN
  /\ req' = [op |-> "createMedia0", hero |-> r.isHeroImage = "true", file |-> r.file]
  /\ IF verifyToken(token) # 0
     THEN /\ res' = MediaResponse(verifyToken(token), 0)
          /\ UNCHANGED <<media, mediaSeq>>
     ELSE IF requireAdmin(token) # 0
     THEN /\ res' = MediaResponse(requireAdmin(token), 0)
          /\ UNCHANGED <<media, mediaSeq>>
     ELSE IF requested /\ r.file = "none"
     THEN \* req.file.mimetype of no file throws
          /\ res' = MediaResponse(500, 0)
          /\ UNCHANGED <<media, mediaSeq>>
     ELSE IF r.file # "none"
     THEN IF ~r.uploadOk \/ ~validate(castDoc(fileDoc))
          THEN /\ media' = swept
               /\ res' = MediaResponse(500, 0)
               /\ UNCHANGED mediaSeq
          ELSE /\ media' = insert(swept, id, fileDoc, now)
               /\ mediaSeq' = id
               /\ res' = MediaResponse(201, id)
     ELSE IF ~r.url \/ ~validate(castDoc(urlDoc))
     THEN \* url is a required path
          /\ res' = MediaResponse(500, 0)
          /\ UNCHANGED <<media, mediaSeq>>
     ELSE /\ media' = insert(media, id, urlDoc, now)
          /\ mediaSeq' = id
          /\ res' = MediaResponse(201, id)
  /\ UNCHANGED <<admins, adminSeq, tokens, now, strictQuery>>

-----------------------------------------------------------------------------
(* unnamed/part_000: PUT /api/media/:id *)

\* r: [file, isHeroImage, category, isActive, uploadOk]
UpdateMedia0(token, id, r) ==
  LET loaded == media[id]
      requested == r.isHeroImage = "true"
      isImage == loaded["type"] = "image" \/ (r.file # "none" /\ isImageFile(r.file))
      newIsHeroImage == requested /\ isImage
      swept == IF newIsHeroImage THEN updateMany(media, DOMAIN media, HeroFalse, now) ELSE media
      d1 == IF r.file # "none"
            THEN setProp(loaded, "type", IF isVideoFile(r.file) THEN "video" ELSE "image")
            ELSE loaded
      d2 == IF r.category # "absent" THEN setProp(d1, "category", r.category) ELSE d1
      d3 == IF r.isActive # "absent" THEN setProp(d2, "isActive", r.isActive = "true") ELSE d2
      edited == IF r.isHeroImage # "absent" THEN setProp(d3, "isHeroImage", newIsHeroImage) ELSE d3
  IN
  /\ req' = [op |-> "updateMedia0", hero |-> r.isHeroImage = "true", file |-> r.file,
             flag |-> r.isHeroImage]
  /\ IF verifyToken(token) # 0
     THEN /\ res' = MediaResponse(verifyToken(token), 0)
          /\ UNCHANGED media
     ELSE IF requireAdmin(token) # 0
     THEN /\ res' = MediaResponse(requireAdmin(token), 0)
          /\ UNCHANGED media
     ELSE IF id \notin DOMAIN media
     THEN \* media.type of null throws before the 404 is reached
          /\ res' = MediaResponse(500, 0)
          /\ UNCHANGED media
     ELSE IF r.file # "none" /\ ~r.uploadOk
     THEN /\ media' = swept
          /\ res' = MediaResponse(500, 0)
     ELSE IF ~validate(edited)
     THEN /\ media' = swept
          /\ res' = MediaResponse(500, 0)
     ELSE /\ media' = save(swept, id, loaded, edited, r.file # "none", now)
          /\ res' = MediaResponse(200, id)
  /\ UNCHANGED <<admins, adminSeq, tokens, mediaSeq, now, strictQuery>>

-----------------------------------------------------------------------------
(* unnamed/part_000: GET /api/media/hero-image *)

GetHeroImage0 ==
  LET found == {id \in DOMAIN media :
                  matches(media[id], castFilter([isHeroImage |-> TRUE, isActive |-> TRUE]))}
  IN
  /\ req' = [op |-> "getHeroImage0"]
  /\ IF found = {}
     THEN res' = [status |-> 200, success |-> FALSE, id |-> 0]
     ELSE \E id \in found : res' = [status |-> 200, success |-> TRUE, id |-> id]
  /\ UNCHANGED <<admins, adminSeq, tokens, media, mediaSeq, now, strictQuery>>

-----------------------------------------------------------------------------
(* unnamed/part_000: POST /api/media/hero-image *)

\* mediaId = 0: the body names no mediaId
SetHeroImage(token, mediaId) ==
  /\ req' = [op |-> "setHeroImage"]
  /\ IF verifyToken(token) # 0
     THEN /\ res' = MediaResponse(verifyToken(token), 0)
          /\ UNCHANGED media
     ELSE IF requireAdmin(token) # 0
     THEN /\ res' = MediaResponse(requireAdmin(token), 0)
          /\ UNCHANGED media
     ELSE IF mediaId = 0
     THEN /\ res' = MediaResponse(400, 0)
          /\ UNCHANGED media
     ELSE IF mediaId \notin DOMAIN media
     THEN /\ res' = MediaResponse(404, 0)
          /\ UNCHANGED media
     ELSE IF media[mediaId]["type"] # "image"
     THEN /\ res' = MediaResponse(400, 0)
          /\ UNCHANGED media
     ELSE /\ media' = save(updateMany(media, DOMAIN media, HeroFalse, now), mediaId,
                           media[mediaId], setProp(media[mediaId], "isHeroImage", TRUE),
                           FALSE, now)
          /\ res' = MediaResponse(200, mediaId)
  /\ UNCHANGED <<admins, adminSeq, tokens, mediaSeq, now, strictQuery>>

-----------------------------------------------------------------------------
(* The clock *)

Tick(limit) ==
  /\ now < limit
  /\ now' = now + 1
  /\ req' = [op |-> "tick"]
  /\ res' = [status |-> 0]
  /\ UNCHANGED <<admins, adminSeq, tokens, media, mediaSeq, strictQuery>>

-----------------------------------------------------------------------------
(* The login guard: the accounts, the login route and the clock *)

NoScript == [pc |-> 0, x |-> 0, y |-> 0, once |-> NoDocs]

InitGuard ==
  /\ admins = [a \in {1} |-> NewAdmin("admin", "admin@pixelarts.com", "admin123", "superadmin")]
  /\ adminSeq = 1
  /\ tokens = {}
  /\ media = NoDocs
  /\ mediaSeq = 0
  /\ now = 0
  /\ strictQuery = FALSE
  /\ req = [op |-> "start"]
  /\ res = [status |-> 0]
  /\ script = NoScript
  /\ pending = NoDocs

GuardTick == Tick(MaxTime) /\ UNCHANGED <<script, pending>>

\* the login bodies: every account name with every well-formed password, and
\* one body for each way of failing before the password is looked at
LoginRequests ==
  {c \in Usernames \X Passwords :
     /\ c[1] \in {"ab", "ghost"} => c[2] = "admin123"
     /\ c[2] = "abc" => c[1] = "admin"}

GuardLogin == (\E c \in LoginRequests : Login(c[1], c[2])) /\ UNCHANGED <<script, pending>>

Tokens == 0..MaxAdmins

GuardRegister ==
  /\ adminSeq < MaxAdmins
  /\ \E t \in Tokens, role \in {"admin", "superadmin"} :
       Register(t, "editor", "editor@pixelarts.com", "Editor1x", role)
  /\ UNCHANGED <<script, pending>>

\* a request without a token is the same rejection whatever it carries
Calls(S, plain) == ((1..MaxAdmins) \X S) \cup {<<NoToken, plain>>}

GuardStatus ==
  /\ \E c \in Calls((1..MaxAdmins) \X BOOLEAN, <<1, FALSE>>) :
       UpdateStatus(c[1], c[2][1], c[2][2])
  /\ UNCHANGED <<script, pending>>

NextGuard == GuardLogin \/ GuardTick \/ GuardRegister \/ GuardStatus

SpecGuard == InitGuard /\ [][NextGuard]_vars

-----------------------------------------------------------------------------
(* The media routes over one logged-in admin *)

Files == {"none", "image/png", "video/mp4"}
Flags == {"absent", "true", "false"}

\* the bodies of POST /api/media: every combination of file, hero flag and
\* category, an upload failure and a missing url with the other fields plain
CreateRequests ==
  {r \in [file : Files, url : BOOLEAN, type : {"absent", "image", "video"},
          isHeroImage : {"absent", "true"}, category : {"absent", "hero-image"},
          uploadOk : BOOLEAN] :
     /\ r.file = "none" => r.uploadOk
     /\ r.file # "none" => (~r.url /\ r.type = "absent")
     /\ ~r.uploadOk => r.category = "absent"
     /\ (r.file = "none" /\ ~r.url) => (r.type = "absent" /\ r.category = "absent")}

\* the bodies of PUT /api/media/:id, likewise
UpdateRequests ==
  {r \in [file : Files, isHeroImage : Flags, category : {"absent", "hero-image"},
          isActive : {"absent", "false"}, uploadOk : BOOLEAN] :
     /\ r.file = "none" => r.uploadOk
     /\ ~r.uploadOk => (r.category = "absent" /\ r.isActive = "absent")
     /\ r.isActive = "false" => (r.file = "none" /\ r.category = "absent")}

PlainCreate ==
  [file |-> "image/png", url |-> FALSE, type |-> "absent", isHeroImage |-> "absent",
   category |-> "absent", uploadOk |-> TRUE]

PlainUpdate ==
  [file |-> "none", isHeroImage |-> "absent", category |-> "absent", isActive |-> "absent",
   uploadOk |-> TRUE]

MediaIds == 1..MaxMedia

\* the calls of the one logged-in admin, and one without a token
MediaCalls(S, plain) == ({1} \X S) \cup {<<NoToken, plain>>}

LoggedInAdmin ==
  updateLastLogin(resetLoginAttempts(
    NewAdmin("admin", "admin@pixelarts.com", "admin123", "superadmin")), 0)

InitMedia ==
  /\ admins = [a \in {1} |-> LoggedInAdmin]
  /\ adminSeq = 1
  /\ tokens = {1}
  /\ media = NoDocs
  /\ mediaSeq = 0
  /\ now = 0
  /\ strictQuery \in BOOLEAN
  /\ req = [op |-> "start"]
  /\ res = [status |-> 0]
  /\ script = NoScript
  /\ pending = NoDocs

MediaCreate ==
  /\ mediaSeq < MaxMedia
  /\ \E c \in MediaCalls(CreateRequests, PlainCreate) : CreateMedia(c[1], c[2])
  /\ UNCHANGED <<script, pending>>

MediaCreate0 ==
  /\ mediaSeq < MaxMedia
  /\ \E c \in MediaCalls(CreateRequests, PlainCreate) : CreateMedia0(c[1], c[2])
  /\ UNCHANGED <<script, pending>>

MediaUpdate ==
  /\ \E c \in MediaCalls(MediaIds \X UpdateRequests, <<1, PlainUpdate>>) :
       UpdateMedia(c[1], c[2][1], c[2][2])
  /\ UNCHANGED <<script, pending>>

MediaUpdate0 ==
  /\ \E c \in MediaCalls(MediaIds \X UpdateRequests, <<1, PlainUpdate>>) :
       UpdateMedia0(c[1], c[2][1], c[2][2])
  /\ UNCHANGED <<script, pending>>

MediaDelete ==
  /\ \E c \in MediaCalls(MediaIds, 1) : DeleteMedia(c[1], c[2])
  /\ UNCHANGED <<script, pending>>

MediaToggle ==
  /\ \E c \in MediaCalls(MediaIds, 1) : ToggleStatus(c[1], c[2])
  /\ UNCHANGED <<script, pending>>

MediaSetHero ==
  /\ \E c \in MediaCalls({0} \cup MediaIds, 1) : SetHeroImage(c[1], c[2])
  /\ UNCHANGED <<script, pending>>

MediaGetHero == GetHeroImage /\ UNCHANGED <<script, pending>>

MediaGetHero0 == GetHeroImage0 /\ UNCHANGED <<script, pending>>

NextMedia ==
  \/ MediaCreate
  \/ MediaCreate0
  \/ MediaUpdate
  \/ MediaUpdate0
  \/ MediaDelete
  \/ MediaToggle
  \/ MediaSetHero
  \/ MediaGetHero
  \/ MediaGetHero0

SpecMedia == InitMedia /\ [][NextMedia]_vars

-----------------------------------------------------------------------------
(* Scenario A and the repeated designation, played request by request; every
   request of the scenario succeeds *)

HeroUpdate ==
  [file |-> "none", isHeroImage |-> "true", category |-> "absent", isActive |-> "absent",
   uploadOk |-> TRUE]

UrlCreate ==
  [file |-> "none", url |-> TRUE, type |-> "image", isHeroImage |-> "absent",
   category |-> "absent", uploadOk |-> TRUE]

\* create an image record without the hero flag
CreateImage ==
  \E r \in {PlainCreate, UrlCreate} : CreateMedia(1, r) \/ CreateMedia0(1, r)

\* designate record id as the hero
Designate(id) ==
  \/ UpdateMedia(1, id, HeroUpdate)
  \/ UpdateMedia0(1, id, HeroUpdate)
  \/ SetHeroImage(1, id)

ScenarioTick == Tick(MaxMediaTime) /\ UNCHANGED <<script, pending>>

ScenarioCreateX ==
  /\ script.pc = 0
  /\ CreateImage
  /\ res'.status = 201
  /\ script' = [script EXCEPT !.pc = 1, !.x = res'.id]
  /\ UNCHANGED pending

ScenarioDesignateX ==
  /\ script.pc = 1
  /\ Designate(script.x)
  /\ res'.status = 200
  /\ script' = [script EXCEPT !.pc = 2]
  /\ UNCHANGED pending

ScenarioCreateY ==
  /\ script.pc = 2
  /\ CreateImage
  /\ res'.status = 201
  /\ script' = [script EXCEPT !.pc = 3, !.y = res'.id]
  /\ UNCHANGED pending

ScenarioDesignateY ==
  /\ script.pc = 3
  /\ Designate(script.y)
  /\ res'.status = 200
  /\ script' = [script EXCEPT !.pc = 4, !.once = media']
  /\ UNCHANGED pending

ScenarioRead ==
  /\ script.pc = 4
  /\ GetHeroImage \/ GetHeroImage0
  /\ script' = [script EXCEPT !.pc = 5]
  /\ UNCHANGED pending

ScenarioDesignateAgain ==
  /\ script.pc = 4
  /\ Designate(script.y)
  /\ res'.status = 200
  /\ script' = [script EXCEPT !.pc = 6]
  /\ UNCHANGED pending

NextScenario ==
  \/ ScenarioTick
  \/ ScenarioCreateX
  \/ ScenarioDesignateX
  \/ ScenarioCreateY
  \/ ScenarioDesignateY
  \/ ScenarioRead
  \/ ScenarioDesignateAgain

SpecScenario == InitMedia /\ [][NextScenario]_vars

-----------------------------------------------------------------------------
(* The admin routes: accounts, their uploads, status and deletion *)

AdminLogin ==
  /\ \E u \in {"admin", "editor"}, p \in {"admin123", "Editor1x"} : Login(u, p)
  /\ UNCHANGED <<script, pending>>

AdminRegister ==
  /\ adminSeq < MaxAdmins
  /\ \E t \in Tokens, role \in {"admin", "superadmin"} :
       Register(t, "editor", "editor@pixelarts.com", "Editor1x", role)
  /\ UNCHANGED <<script, pending>>

AdminUpload ==
  /\ mediaSeq < MaxMedia
  /\ \E t \in Tokens : CreateMedia(t, PlainCreate)
  /\ UNCHANGED <<script, pending>>

AdminStatus ==
  /\ \E c \in Calls((1..MaxAdmins) \X BOOLEAN, <<1, FALSE>>) :
       UpdateStatus(c[1], c[2][1], c[2][2])
  /\ UNCHANGED <<script, pending>>

AdminDelete ==
  /\ \E c \in Calls(1..MaxAdmins, 1) : DeleteAdmin(c[1], c[2])
  /\ UNCHANGED <<script, pending>>

NextAdmin == AdminLogin \/ AdminRegister \/ AdminUpload \/ AdminStatus \/ AdminDelete

SpecAdmin == InitGuard /\ [][NextAdmin]_vars

-----------------------------------------------------------------------------
(* Registration and login with identifiers in either letter case *)

Identifiers ==
  {"admin", "ADMIN", "editor", "Editor", "editor@pixelarts.com", "Editor@Pixelarts.com"}

LookupLogin ==
  /\ \E u \in Identifiers, p \in {"admin123", "Editor1x"} : Login(u, p)
  /\ UNCHANGED <<script, pending>>

LookupRegister ==
  /\ adminSeq < MaxAdmins
  /\ \E t \in Tokens, u \in {"editor", "Editor"},
        e \in {"editor@pixelarts.com", "Editor@Pixelarts.com"} :
       Register(t, u, e, "Editor1x", "admin")
  /\ UNCHANGED <<script, pending>>

NextLookup == LookupLogin \/ LookupRegister

SpecLookup == InitGuard /\ [][NextLookup]_vars

-----------------------------------------------------------------------------
(* The login guard with store writes that may throw *)

FaultTick == Tick(MaxTime) /\ UNCHANGED <<script, pending>>

FaultLogin ==
  /\ \E u \in {"admin", "ghost"}, p \in {"admin123", "Editor1x"}, f \in Writes :
       LoginWith(u, p, f)
  /\ UNCHANGED <<script, pending>>

NextFault == FaultLogin \/ FaultTick

SpecFault == InitGuard /\ [][NextFault]_vars

-----------------------------------------------------------------------------
(* The media routes of routes/media.js with the clock: the create and update
   requests of one logged-in admin, and time passing between them *)

ClockTick == Tick(MaxMediaTime) /\ UNCHANGED <<script, pending>>

ClockCreate ==
  /\ mediaSeq < MaxMedia
  /\ \E c \in MediaCalls(CreateRequests, PlainCreate) : CreateMedia(c[1], c[2])
  /\ UNCHANGED <<script, pending>>

ClockUpdate ==
  /\ \E c \in MediaCalls(MediaIds \X UpdateRequests, <<1, PlainUpdate>>) :
       UpdateMedia(c[1], c[2][1], c[2][2])
  /\ UNCHANGED <<script, pending>>

NextClock == ClockCreate \/ ClockUpdate \/ ClockTick

SpecClock == InitMedia /\ [][NextClock]_vars

-----------------------------------------------------------------------------
(* Owners: logins, registrations, uploads, deletions interleaved with the
   other requests, and the reset routine *)

OwnerLogin ==
  /\ \E u \in {"admin", "editor"}, p \in {"admin123", "Editor1x"} : Login(u, p)
  /\ UNCHANGED <<script, pending>>

OwnerRegister ==
  /\ adminSeq < MaxAdmins
  /\ \E t \in Tokens : Register(t, "editor", "editor@pixelarts.com", "Editor1x", "admin")
  /\ UNCHANGED <<script, pending>>

OwnerUpload ==
  /\ mediaSeq < MaxMedia
  /\ \E t \in Tokens : CreateMedia(t, PlainCreate)
  /\ UNCHANGED <<script, pending>>

OwnerDeleteCheck ==
  /\ pending = NoDocs
  /\ \E c \in Calls(1..MaxAdmins, 1) : DeleteAdminCheck(c[1], c[2])
  /\ UNCHANGED script

OwnerDeleteFinish == DeleteAdminFinish /\ UNCHANGED script

OwnerReset ==
  /\ adminSeq < MaxAdmins
  /\ pending = NoDocs
  /\ resetAdmin
  /\ UNCHANGED <<script, pending>>

NextOwner ==
  \/ OwnerLogin
  \/ OwnerRegister
  \/ OwnerUpload
  \/ OwnerDeleteCheck
  \/ OwnerDeleteFinish
  \/ OwnerReset

SpecOwner == InitGuard /\ [][NextOwner]_vars

-----------------------------------------------------------------------------
(* Concurrent failed logins: requests one at a time and the clock bring the
   account to a guard state; then up to MaxRace wrong-password requests load
   the account before any of them writes *)

RaceTick == pending = NoDocs /\ Tick(MaxTime) /\ UNCHANGED <<script, pending>>

RaceLogin ==
  /\ pending = NoDocs
  /\ \E p \in {"admin123", "Editor1x"} : Login("admin", p)
  /\ UNCHANGED <<script, pending>>

RaceLoad ==
  /\ Cardinality(DOMAIN pending) < MaxRace
  /\ \A s \in DOMAIN pending : ~pending[s].done
  /\ LoginLoad("admin", "Editor1x")
  /\ UNCHANGED script

RaceFinish == (\E s \in DOMAIN pending : LoginFinish(s)) /\ UNCHANGED script

NextRace == RaceTick \/ RaceLogin \/ RaceLoad \/ RaceFinish

SpecRace == InitGuard /\ [][NextRace]_vars

-----------------------------------------------------------------------------
(* Concurrent hero designations: records are created one request at a time;
   then up to MaxRace update requests run their sweeps before any of them
   saves *)

HeroRaceTick == pending = NoDocs /\ Tick(MaxMediaTime) /\ UNCHANGED <<script, pending>>

HeroRaceCreate ==
  /\ pending = NoDocs
  /\ mediaSeq < MaxMedia
  /\ \E f \in {"image/png", "video/mp4"} : CreateMedia(1, [PlainCreate EXCEPT !.file = f])
  /\ UNCHANGED <<script, pending>>

HeroRaceSweep ==
  /\ Cardinality(DOMAIN pending) < MaxRace
  /\ \A s \in DOMAIN pending : ~pending[s].done
  /\ \E id \in MediaIds, r \in {HeroUpdate, PlainUpdate} :
       /\ \A s \in DOMAIN pending : pending[s].id # id
       /\ UpdateMediaSweep(1, id, r)
  /\ UNCHANGED script

HeroRaceSave == (\E s \in DOMAIN pending : UpdateMediaSave(s)) /\ UNCHANGED script

NextHeroRace == HeroRaceTick \/ HeroRaceCreate \/ HeroRaceSweep \/ HeroRaceSave

SpecHeroRace == InitMedia /\ [][NextHeroRace]_vars

-----------------------------------------------------------------------------
(* Superadmins: logins and registrations one at a time; then up to MaxRace
   status and delete requests pass the middleware before any of them writes *)

SuperLogin ==
  /\ pending = NoDocs
  /\ \E u \in {"admin", "editor"}, p \in {"admin123", "Editor1x"} : Login(u, p)
  /\ UNCHANGED <<script, pending>>

SuperRegister ==
  /\ pending = NoDocs
  /\ adminSeq < MaxAdmins
  /\ \E t \in Tokens, role \in {"admin", "superadmin"} :
       Register(t, "editor", "editor@pixelarts.com", "Editor1x", role)
  /\ UNCHANGED <<script, pending>>

SuperStatus ==
  /\ Cardinality(DOMAIN pending) < MaxRace
  /\ \A s \in DOMAIN pending : ~pending[s].done
  /\ \E c \in Calls((1..MaxAdmins) \X BOOLEAN, <<1, FALSE>>) :
       UpdateStatusAdmit(c[1], c[2][1], c[2][2])
  /\ UNCHANGED script

SuperDelete ==
  /\ Cardinality(DOMAIN pending) < MaxRace
  /\ \A s \in DOMAIN pending : ~pending[s].done
  /\ \E c \in Calls(1..MaxAdmins, 1) : DeleteAdminAdmit(c[1], c[2])
  /\ UNCHANGED script

SuperResume == (\E s \in DOMAIN pending : AdminResume(s)) /\ UNCHANGED script

NextSuper == SuperLogin \/ SuperRegister \/ SuperStatus \/ SuperDelete \/ SuperResume

SpecSuper == InitGuard /\ [][NextSuper]_vars

-----------------------------------------------------------------------------
(* Profiles: logins, registrations and profile updates, one request at a time *)

ProfileNames == {"absent", "ab", "admin", "editor", "ghost"}
ProfileEmails == {"absent", "editor@pixelarts.com", "ghost@pixelarts.com"}

ProfileLogin ==
  /\ \E c \in {<<"admin", "admin123">>, <<"editor", "Editor1x">>, <<"ghost", "Editor1x">>} :
       Login(c[1], c[2])
  /\ UNCHANGED <<script, pending>>

ProfileRegister ==
  /\ adminSeq < MaxAdmins
  /\ \E t \in Tokens : Register(t, "editor", "editor@pixelarts.com", "Editor1x", "admin")
  /\ UNCHANGED <<script, pending>>

ProfileUpdate ==
  /\ \E t \in Tokens, u \in ProfileNames, e \in ProfileEmails : UpdateProfile(t, u, e)
  /\ UNCHANGED <<script, pending>>

NextProfile == ProfileLogin \/ ProfileRegister \/ ProfileUpdate

SpecProfile == InitGuard /\ [][NextProfile]_vars

-----------------------------------------------------------------------------
(* The media listing: uploads and deletions of the logged-in admin, and list
   requests with and without a token *)

ListCreate ==
  /\ mediaSeq < MaxMedia
  /\ \E c \in MediaCalls(CreateRequests, PlainCreate) : CreateMedia(c[1], c[2])
  /\ UNCHANGED <<script, pending>>

ListDelete ==
  /\ \E c \in MediaCalls(MediaIds, 1) : DeleteMedia(c[1], c[2])
  /\ UNCHANGED <<script, pending>>

ListGet == (\E t \in Tokens : ListMedia(t)) /\ UNCHANGED <<script, pending>>

NextList == ListCreate \/ ListDelete \/ ListGet

SpecList == InitMedia /\ [][NextList]_vars

-----------------------------------------------------------------------------
(* Properties of the login guard *)

AttemptsOf(doc) == HydrateAdmin(doc)["loginAttempts"]

\* the step is a login request that the handler resolved to account id
LoginFor(id) == req'.op = "login" /\ res'.account = id

WrongPassword(id) == ~comparePassword(admins[id], req'.password)

NoLock(doc) == ~Has(doc, "lockUntil")

\* the account is locked at time t: lockUntil is present and in the future
Locked(doc, t) == Has(doc, "lockUntil") /\ doc["lockUntil"] > t

\* C2: Lockout threshold. Each wrong-password login against an active account
\* with no lock and n < 4 recorded failures records failure n + 1 and sets no
\* lock, so the first 4 failures after counter 0 leave the account unlocked;
\* the failure at n = 4 (the 5th) sets lockUntil to the time of that failure
\* plus 2 hours, and the account is then locked; a login request against a
\* locked account is answered 423 and leaves loginAttempts unchanged.
C2_LockoutThreshold ==
  [][\A id \in DOMAIN admins :
       /\ (/\ LoginFor(id)
           /\ admins[id]["isActive"]
           /\ NoLock(admins[id])
           /\ WrongPassword(id))
          => /\ AttemptsOf(admins[id]) < MAX_LOGIN_ATTEMPTS - 1
                => /\ AttemptsOf(admins'[id]) = AttemptsOf(admins[id]) + 1
                   /\ NoLock(admins'[id])
             /\ AttemptsOf(admins[id]) = MAX_LOGIN_ATTEMPTS - 1
                => /\ Has(admins'[id], "lockUntil")
                   /\ admins'[id]["lockUntil"] = now + LOCK_TIME
                   /\ Locked(admins'[id], now')
       /\ (LoginFor(id) /\ Locked(admins[id], now))
          => /\ res'.status = 423
             /\ AttemptsOf(admins'[id]) = AttemptsOf(admins[id])
    ]_vars

\* C2 witness: a 6th request is answered 423 on an account locked by 5 failures
C2_Witness ==
  /\ req.op = "login"
  /\ res.status = 423
  /\ res.account = 1
  /\ AttemptsOf(admins[1]) = MAX_LOGIN_ATTEMPTS
  /\ Locked(admins[1], now)

\* C3 as the spec states it: the counter of an account stays in 0..4.
C3_CounterStaysBelowFive ==
  \A id \in DOMAIN admins : AttemptsOf(admins[id]) \in 0..(MAX_LOGIN_ATTEMPTS - 1)

\* C3, amended: for an active account with loginAttempts = 4 and no lock, one
\* more failed login locks the account for 2 hours and the stored counter
\* becomes 5; in every state an account without a lockUntil field has its
\* counter in 0..4.
C3_CounterAtLock ==
  /\ [][\A id \in DOMAIN admins :
          (/\ LoginFor(id)
           /\ admins[id]["isActive"]
           /\ NoLock(admins[id])
           /\ AttemptsOf(admins[id]) = MAX_LOGIN_ATTEMPTS - 1
           /\ WrongPassword(id))
          => /\ Has(admins'[id], "lockUntil")
             /\ admins'[id]["lockUntil"] = now + LOCK_TIME
             /\ AttemptsOf(admins'[id]) = MAX_LOGIN_ATTEMPTS
       ]_vars
  /\ [](\A id \in DOMAIN admins :
          NoLock(admins[id]) => AttemptsOf(admins[id]) \in 0..(MAX_LOGIN_ATTEMPTS - 1))

\* C3 witness: the failure that locked the account left the counter at 5
C3_Witness ==
  /\ req.op = "login"
  /\ res.status = 401
  /\ res.account = 1
  /\ Has(admins[1], "lockUntil")
  /\ admins[1]["lockUntil"] = now + LOCK_TIME
  /\ AttemptsOf(admins[1]) = MAX_LOGIN_ATTEMPTS

\* C4: while an account is locked, every login request for it, whatever the
\* password, is answered 423 with no token and no password comparison, and
\* the stored account (loginAttempts, lockUntil, lastLogin) is unchanged.
C4_LockedLoginRejected ==
  [][\A id \in DOMAIN admins :
       (LoginFor(id) /\ Locked(admins[id], now))
       => /\ res'.status = 423
          /\ res'.token = NoToken
          /\ ~res'.compared
          /\ tokens' = tokens
          /\ admins'[id] = admins[id]
    ]_vars

\* C4 witness: the correct password was refused on a locked account
C4_Witness ==
  /\ req.op = "login"
  /\ res.account = 1
  /\ res.status = 423
  /\ comparePassword(admins[1], req.password)
  /\ Locked(admins[1], now)

\* C5: Guard reset. A login with the correct password on an active, unlocked
\* account with N < 5 recorded failures succeeds; afterwards the counter reads
\* 0, lockUntil is absent and lastLogin is the time of the login.
C5_GuardReset ==
  [][\A id \in DOMAIN admins :
       (/\ LoginFor(id)
        /\ admins[id]["isActive"]
        /\ ~Locked(admins[id], now)
        /\ AttemptsOf(admins[id]) < MAX_LOGIN_ATTEMPTS
        /\ ~WrongPassword(id))
       => /\ res'.status = 200
          /\ res'.token = generateToken(id)
          /\ AttemptsOf(admins'[id]) = 0
          /\ NoLock(admins'[id])
          /\ Has(admins'[id], "lastLogin")
          /\ admins'[id]["lastLogin"] = now
    ]_vars

\* C5 witness: a successful login removed 4 recorded failures
C5_Witness ==
  /\ req.op = "login"
  /\ res.status = 200
  /\ res.account = 1
  /\ res.loaded["loginAttempts"] = MAX_LOGIN_ATTEMPTS - 1
  /\ ~Has(admins[1], "loginAttempts")
  /\ admins[1]["lastLogin"] = now

\* C6 as the spec states it: for any account whose lock has expired, the next
\* login is not answered as locked, and a wrong password leaves counter 1 and
\* no lockUntil.
C6_LazyExpiryAnyAccount ==
  [][\A id \in DOMAIN admins :
       (/\ LoginFor(id)
        /\ Has(admins[id], "lockUntil")
        /\ admins[id]["lockUntil"] < now)
       => /\ res'.status # 423
          /\ WrongPassword(id)
             => /\ AttemptsOf(admins'[id]) = 1
                /\ NoLock(admins'[id])
    ]_vars

\* C6, amended: for an active account whose lock has expired, the next login
\* is not answered as locked, and a wrong password leaves counter 1 and no
\* lockUntil.
C6_LazyExpiryActive ==
  [][\A id \in DOMAIN admins :
       (/\ LoginFor(id)
        /\ Has(admins[id], "lockUntil")
        /\ admins[id]["lockUntil"] < now)
       => /\ res'.status # 423
          /\ (admins[id]["isActive"] /\ WrongPassword(id))
             => /\ AttemptsOf(admins'[id]) = 1
                /\ NoLock(admins'[id])
    ]_vars

\* C6 witness: a failure after the lock expired restarted the counter at 1
C6_Witness ==
  /\ req.op = "login"
  /\ res.status = 401
  /\ res.account = 1
  /\ res.compared
  /\ now > LOCK_TIME
  /\ AttemptsOf(admins[1]) = 1
  /\ NoLock(admins[1])

-----------------------------------------------------------------------------
(* Properties of the hero image *)

\* the stored hero flag of a record; a record without the field reads as false
HeroFlag(doc) == Has(doc, "isHeroImage") /\ doc["isHeroImage"] = TRUE

Heroes(coll) == {id \in DOMAIN coll : HeroFlag(coll[id])}

\* C1: Hero uniqueness. After every completed request that touches media
\* records (create, update, set hero image, delete, toggle status), whether
\* it succeeded or failed, at most one stored record has isHeroImage = true.
C1_HeroUniqueness == Cardinality(Heroes(media)) <= 1

\* C1 witness: a request that asked for the hero flag has completed with
\* success while the store holds two records
C1_Witness ==
  /\ \/ req.op \in {"createMedia", "createMedia0", "updateMedia", "updateMedia0"} /\ req.hero
     \/ req.op = "setHeroImage"
  /\ res.status \in {200, 201}
  /\ Cardinality(DOMAIN media) = 2

\* C7: Scenario A. After creating image X without the hero flag, designating
\* X, creating image Y and designating Y, all successfully, the hero read
\* returns Y and the stored hero flag of X is false.
C7_ScenarioA ==
  (script.pc = 5 /\ req.op \in {"getHeroImage", "getHeroImage0"}) =>
    /\ res.success
    /\ res.id = script.y
    /\ ~HeroFlag(media[script.x])

\* C8: Hero kind guard. After any sequence of create and update requests, no
\* stored record has isHeroImage = true together with type = 'video'.
C8_HeroKindGuard ==
  \A id \in DOMAIN media : ~(HeroFlag(media[id]) /\ media[id]["type"] = "video")

\* C8 witness: an update that carried a video file and asked for the hero flag
\* has succeeded, and the record is now a video
C8_Witness ==
  /\ req.op \in {"updateMedia", "updateMedia0"}
  /\ req.hero
  /\ req.file = "video/mp4"
  /\ res.status = 200
  /\ media[res.id]["type"] = "video"

\* C9: Hero designation is idempotent. Designating the same image record
\* twice in a row leaves the hero flags of the store as one designation left
\* them: that record has isHeroImage = true and every other record has not.
C9_DesignationIdempotent ==
  script.pc = 6 =>
    /\ Heroes(media) = Heroes(script.once)
    /\ Heroes(media) = {script.y}

-----------------------------------------------------------------------------
(* Properties of account deletion *)

\* the token is of an account that exists, is active and is not locked
Authenticated(token) ==
  /\ token \in tokens
  /\ token \in DOMAIN admins
  /\ admins[token]["isActive"]
  /\ ~Locked(admins[token], now)

Uploads(id) == {m \in DOMAIN media : media[m]["uploadedBy"] = id}

\* C10: Deletion ownership guard. A delete request for an account that
\* uploaded at least one media record is rejected and the account stays in
\* the store as it was; a status request of another authenticated superadmin
\* that deactivates that account succeeds and sets isActive = false.
C10_DeletionOwnershipGuard ==
  [][\A id \in DOMAIN admins :
       Uploads(id) # {} =>
         /\ (req'.op = "deleteAdmin" /\ req'.id = id)
            => /\ res'.status \in 400..499
               /\ id \in DOMAIN admins'
               /\ admins'[id] = admins[id]
         /\ (/\ req'.op = "status"
             /\ req'.id = id
             /\ req'.isActive = FALSE
             /\ req'.token # id
             /\ Authenticated(req'.token)
             /\ admins[req'.token]["role"] = "superadmin")
            => /\ res'.status = 200
               /\ id \in DOMAIN admins'
               /\ admins'[id]["isActive"] = FALSE
    ]_vars

\* C10 witness: a superadmin's delete request for another account that
\* uploaded a record has been answered 400 and the account is still stored
C10_Witness ==
  /\ req.op = "deleteAdmin"
  /\ req.id \in DOMAIN admins
  /\ req.id # req.token
  /\ Authenticated(req.token)
  /\ admins[req.token]["role"] = "superadmin"
  /\ Uploads(req.id) # {}
  /\ res.status = 400

-----------------------------------------------------------------------------
(* Properties of the login responses *)

\* the identifier names the account, up to letter case, by username or email
CaseEq(ident, doc) ==
  toLowerCase(trim(ident)) \in {toLowerCase(doc["username"]), toLowerCase(doc["email"])}

\* what the client sees of a login response
Visible(r) ==
  [status |-> r.status, success |-> r.success, message |-> r.message, token |-> r.token,
   admin |-> r.admin]

\* C11: A login returns a token only if, at the time of its checks, an account
\* matching the identifier exists, is not locked, is active and the password
\* matches its hash; every other response has success = false and no token;
\* the success response holds no password hash, failure counter or lock time.
C11_TokenOnlyIfChecked ==
  [][req'.op = "login" =>
       /\ res'.token # NoToken
          => /\ res'.account \in DOMAIN admins
             /\ CaseEq(req'.username, admins[res'.account])
             /\ ~Locked(admins[res'.account], now)
             /\ admins[res'.account]["isActive"]
             /\ admins[res'.account]["password"] = hash(req'.password)
             /\ res'.success
             /\ tokens' = tokens \cup {res'.token}
       /\ res'.token = NoToken => (~res'.success /\ tokens' = tokens)
       /\ res'.success
          => DOMAIN res'.admin \cap {"password", "loginAttempts", "lockUntil"} = {}
    ]_vars

\* C11 witness: a login has returned a token and the account's public fields
C11_Witness ==
  /\ req.op = "login"
  /\ res.success
  /\ res.token = 1
  /\ Has(res.admin, "username")
  /\ Has(res.loaded, "loginAttempts")
  /\ ~Has(res.admin, "loginAttempts")

\* C12: No credential leak. A validated login naming no account and one naming
\* an active unlocked account with a wrong password get the same response:
\* status 401, message 'Invalid credentials', nothing else.
C12_NoCredentialLeak ==
  [][(/\ req'.op = "login"
      /\ LoginValid(req'.username, req'.password)
      /\ \/ \A id \in DOMAIN admins : ~CaseEq(req'.username, admins[id])
         \/ \E id \in DOMAIN admins :
              /\ CaseEq(req'.username, admins[id])
              /\ admins[id]["isActive"]
              /\ ~Locked(admins[id], now)
              /\ admins[id]["password"] # hash(req'.password))
     => Visible(res') = [status |-> 401, success |-> FALSE, message |-> "Invalid credentials",
                         token |-> NoToken, admin |-> NoDocs]
    ]_vars

\* C12 witness: a wrong password on an active unlocked account got the
\* response of an unknown account
C12_Witness ==
  /\ req.op = "login"
  /\ res.account = 1
  /\ res.compared
  /\ res.loaded["isActive"]
  /\ ~Locked(res.loaded, now)
  /\ res.status = 401
  /\ res.message = "Invalid credentials"

\* C18: Expiry boundary. For an active account with lockUntil <= now, the
\* instant lockUntil = now included, a login is not answered as locked and a
\* wrong password leaves counter 1 and no lock.
C18_ExpiryBoundary ==
  [][\A id \in DOMAIN admins :
       (/\ LoginFor(id)
        /\ admins[id]["isActive"]
        /\ Has(admins[id], "lockUntil")
        /\ admins[id]["lockUntil"] <= now)
       => /\ res'.status # 423
          /\ WrongPassword(id)
             => /\ AttemptsOf(admins'[id]) = 1
                /\ NoLock(admins'[id])
    ]_vars

\* C19: Unlock after expiry. A login with the correct password on an active
\* account whose lock has expired succeeds with a token and leaves counter 0
\* and no lockUntil.
C19_UnlockAfterExpiry ==
  [][\A id \in DOMAIN admins :
       (/\ LoginFor(id)
        /\ admins[id]["isActive"]
        /\ Has(admins[id], "lockUntil")
        /\ admins[id]["lockUntil"] < now
        /\ ~WrongPassword(id))
       => /\ res'.status = 200
          /\ res'.token = generateToken(id)
          /\ res'.token \in tokens'
          /\ AttemptsOf(admins'[id]) = 0
          /\ NoLock(admins'[id])
    ]_vars

\* C19 witness: a login on an account loaded with an expired lock and 5
\* recorded failures has succeeded and the lock is gone
C19_Witness ==
  /\ req.op = "login"
  /\ res.status = 200
  /\ Has(res.loaded, "lockUntil")
  /\ res.loaded["lockUntil"] < now
  /\ res.loaded["loginAttempts"] = MAX_LOGIN_ATTEMPTS
  /\ NoLock(admins[res.account])
  /\ AttemptsOf(admins[res.account]) = 0

\* C20 as the spec states it: a login to a deactivated account gets the
\* 'deactivated' response in every guard state, with no password comparison
\* and the account unchanged.
C20_DeactivatedAnyGuardState ==
  [][\A id \in DOMAIN admins :
       (LoginFor(id) /\ ~admins[id]["isActive"])
       => /\ res'.status = 401
          /\ res'.message = "Account has been deactivated"
          /\ ~res'.compared
          /\ admins'[id] = admins[id]
    ]_vars

\* C20, amended: a login to a deactivated account is rejected in every guard
\* state with no password comparison, no token and the account unchanged; the
\* response is 'deactivated' unless the lock is active, and then it is the
\* 'locked' response 423.
C20_DeactivatedRejected ==
  [][\A id \in DOMAIN admins :
       (LoginFor(id) /\ ~admins[id]["isActive"])
       => /\ ~res'.compared
          /\ res'.token = NoToken
          /\ admins'[id] = admins[id]
          /\ IF Locked(admins[id], now)
             THEN res'.status = 423
             ELSE res'.status = 401 /\ res'.message = "Account has been deactivated"
    ]_vars

\* C20 witness: a deactivated account with an expired lock got the
\* 'deactivated' response
C20_Witness ==
  /\ req.op = "login"
  /\ res.message = "Account has been deactivated"
  /\ ~res.loaded["isActive"]
  /\ Has(res.loaded, "lockUntil")
  /\ res.loaded["lockUntil"] < now
  /\ admins[res.account] = UnsetPaths(res.loaded, {})

\* C13: Login lookup is case-insensitive on both fields. For every stored
\* account and every identifier equal to its username or its email up to
\* letter case, the login lookup finds that account.
C13_LookupCaseInsensitive ==
  [][(req'.op = "login" /\ LoginValid(req'.username, req'.password))
     => \A id \in DOMAIN admins :
          CaseEq(req'.username, admins[id]) => res'.account = id
    ]_vars

\* the write the request names is one the handler performs on this account
WriteAttempted(id) ==
  /\ admins[id]["isActive"]
  /\ ~Locked(admins[id], now)
  /\ \/ WrongPassword(id) /\ req'.fail = "inc"
     \/ ~WrongPassword(id) /\ req'.fail \in {"reset", "lastLogin"}

\* C16: Guard transitions never fail open. If the store write of
\* incLoginAttempts, resetLoginAttempts or updateLastLogin fails during a
\* login, the response is 500 with success = false and no token is issued.
C16_NeverFailOpen ==
  [][\A id \in DOMAIN admins :
       (LoginFor(id) /\ WriteAttempted(id))
       => /\ res'.status = 500
          /\ ~res'.success
          /\ res'.token = NoToken
          /\ tokens' = tokens
    ]_vars

\* C16 witness: a login with the correct password whose updateLastLogin
\* failed after the reset was written has been answered 500 without a token
C16_Witness ==
  /\ req.op = "login"
  /\ req.fail = "lastLogin"
  /\ res.status = 500
  /\ res.loaded["password"] = hash(req.password)
  /\ res.token = NoToken
  /\ tokens = {}
  /\ ~Has(admins[res.account], "loginAttempts")

-----------------------------------------------------------------------------
(* Properties of the media routes under the clock *)

\* C15: Validation errors short-circuit before any mutation. Whenever a media
\* create or update request is rejected with a 400 validation response (hero
\* requested for a non-image file or a non-image URL record, or neither a file
\* nor a URL supplied), no media record in the store has been modified by that
\* request.
C15_ValidationBeforeMutation ==
  [][(req'.op \in {"createMedia", "updateMedia"} /\ res'.status = 400)
       => media' = media]_vars

-----------------------------------------------------------------------------
(* Properties of media ownership *)

\* C17: Owner integrity. In every reachable state, under any interleaving of
\* admin deletion requests, media creation requests and the reset-admin
\* routine, every stored media record's uploadedBy refers to an admin account
\* that exists in the store.
C17_OwnerIntegrity ==
  \A m \in DOMAIN media : media[m]["uploadedBy"] \in DOMAIN admins

-----------------------------------------------------------------------------
(* Properties of concurrent failed logins *)

\* the stored document after k wrong-password logins run one after the other
\* at time t: a request that finds the account locked writes nothing
RECURSIVE SeqFailures(_, _, _)
SeqFailures(doc, k, t) ==
  IF k = 0 THEN doc
  ELSE IF isLocked(HydrateAdmin(doc), t) THEN doc
  ELSE SeqFailures(incLoginAttempts(doc, HydrateAdmin(doc), t), k - 1, t)

\* every suspended request has written
RaceDone == pending # NoDocs /\ \A s \in DOMAIN pending : pending[s].done

\* C14: No lost guard updates. For k wrong-password login requests against
\* the same account that each load the account before any of them writes,
\* starting from a state in which the account is not locked, the stored
\* counter after all k complete equals the value that k sequential failures
\* from that state would have produced.
C14_NoLostGuardUpdates ==
  RaceDone =>
    AttemptsOf(admins[1]) =
      AttemptsOf(SeqFailures(pending[1].stored, Cardinality(DOMAIN pending), now))

-----------------------------------------------------------------------------
(* Properties of the hero request on a record that is not an image *)

\* a create body that asks for the hero flag with a video file and is
\* otherwise acceptable
DowngradeCreate(r) ==
  r.isHeroImage = "true" /\ r.file = "video/mp4" /\ r.uploadOk /\ r.category = "absent"

\* an update body that asks for the hero flag on a stored record whose
\* resulting kind is not image and is otherwise acceptable
DowngradeUpdate(id, r) ==
  /\ id \in DOMAIN media
  /\ r.isHeroImage = "true"
  /\ r.uploadOk
  /\ r.category = "absent"
  /\ IF r.file # "none" THEN ~isImageFile(r.file) ELSE media[id]["type"] # "image"

\* C21: Downgrade policy. A create or update request of a logged-in admin
\* that asks for hero = true on a record whose resulting kind is not image
\* does not fail: it is answered 201 or 200, the record is stored without a
\* true hero flag and the other requested changes are applied.
C21_DowngradePolicy ==
  [][/\ \A r \in CreateRequests :
          (DowngradeCreate(r) /\ (CreateMedia(1, r) \/ CreateMedia0(1, r)))
            => /\ res'.status = 201
               /\ ~HeroFlag(media'[res'.id])
               /\ media'[res'.id]["type"] = "video"
     /\ \A id \in MediaIds, r \in UpdateRequests :
          (DowngradeUpdate(id, r) /\ (UpdateMedia(1, id, r) \/ UpdateMedia0(1, id, r)))
            => /\ res'.status = 200
               /\ ~HeroFlag(media'[id])
               /\ r.isActive = "false" => media'[id]["isActive"] = FALSE
    ]_vars

-----------------------------------------------------------------------------
(* Properties of concurrent hero designations *)

\* two hero designations of two different records ran their sweeps before
\* either saved, and both have been answered 200
HeroRaceDone ==
  /\ DOMAIN pending = {1, 2}
  /\ \A s \in DOMAIN pending :
       /\ pending[s].done
       /\ pending[s].status = 200
       /\ pending[s].r = HeroUpdate
  /\ pending[1].id # pending[2].id

\* C22: Hero race. When two concurrent hero designations of two different
\* image records X and Y interleave so that each performs its clear-others
\* bulk update before either saves its candidate, both requests succeed and,
\* after both complete, X and Y both have isHeroImage = true in the store.
C22_HeroRace ==
  HeroRaceDone =>
    /\ HeroFlag(media[pending[1].id])
    /\ HeroFlag(media[pending[2].id])

-----------------------------------------------------------------------------
(* Properties of the hero read *)

\* the records the hero read is specified to choose from
HeroCandidates ==
  {id \in DOMAIN media :
     HeroFlag(media[id]) /\ media[id]["isActive"] /\ media[id]["type"] = "image"}

\* C23: Hero read. GET hero-image returns a record exactly when the record has
\* isHeroImage = true, isActive = true and type = 'image', and of several such
\* records the one with the greatest updatedAt; when no record qualifies it
\* answers 'No hero image set'; the read modifies no record.
C23_HeroRead ==
  [][req'.op \in {"getHeroImage", "getHeroImage0"} =>
       /\ media' = media
       /\ IF HeroCandidates = {}
          THEN ~res'.success
          ELSE /\ res'.success
               /\ res'.id \in HeroCandidates
               /\ \A other \in HeroCandidates :
                    media[other]["updatedAt"] <= media[res'.id]["updatedAt"]
    ]_vars

-----------------------------------------------------------------------------
(* Properties of a failed upload *)

\* C24: Upstream failure leaves the store unchanged. When the blob-store
\* upload fails during a media create or update request of a logged-in admin
\* (including one that requested hero = true), the request reports failure
\* and no media record in the store differs from its state before the request.
C24_UploadFailureFrame ==
  [][/\ \A r \in CreateRequests :
          (~r.uploadOk /\ CreateMedia(1, r))
            => res'.status >= 400 /\ media' = media
     /\ \A id \in MediaIds, r \in UpdateRequests :
          (~r.uploadOk /\ UpdateMedia(1, id, r))
            => res'.status >= 400 /\ media' = media
    ]_vars

-----------------------------------------------------------------------------
(* Properties of an update that names no hero flag *)

\* the stored value of the hero flag of a record: "none" when the document
\* has no such field
StoredFlag(doc) ==
  IF ~Has(doc, "isHeroImage") THEN "none"
  ELSE IF doc["isHeroImage"] THEN "true" ELSE "false"

\* C25: Update frame. A PUT /api/media/:id request that carries no
\* isHeroImage field leaves the hero flag of the updated record, and of every
\* other record, exactly as it was before the request.
C25_UpdateFrame ==
  [][(req'.op \in {"updateMedia", "updateMedia0"} /\ req'.flag = "absent")
       => /\ DOMAIN media' = DOMAIN media
          /\ \A id \in DOMAIN media : StoredFlag(media'[id]) = StoredFlag(media[id])
    ]_vars

\* C25 witness: an update without the isHeroImage field has been answered 200
\* and has changed the record it names, while another record is stored
C25_Witness ==
  /\ req.op \in {"updateMedia", "updateMedia0"}
  /\ req.flag = "absent"
  /\ res.status = 200
  /\ media[res.id]["isActive"] = FALSE
  /\ Cardinality(DOMAIN media) = 2

-----------------------------------------------------------------------------
(* Properties of the lock under concurrent logins *)

\* C26: Lock follows the counter under concurrency. In every state reached by
\* any interleaving of login requests against one account, if the stored
\* failure counter is 5 or more then the lockUntil field is present.
C26_LockFollowsCounter ==
  \A id \in DOMAIN admins :
    AttemptsOf(admins[id]) >= MAX_LOGIN_ATTEMPTS => Has(admins[id], "lockUntil")

-----------------------------------------------------------------------------
(* Properties of the superadmin accounts *)

\* C27: A superadmin always remains. Starting from a store with one active
\* superadmin, after any interleaving of status-change and delete requests
\* issued by authenticated superadmins, at least one account with role
\* 'superadmin' and isActive = true exists in the store.
C27_SuperadminRemains ==
  \E id \in DOMAIN admins : admins[id]["role"] = "superadmin" /\ admins[id]["isActive"]

-----------------------------------------------------------------------------
(* Properties of the token check *)

\* C28: Token admission. verifyToken passes a request on to the handler only
\* if the token verifies and the account it names exists, is active and is
\* not locked at the time of the check: a request on an authenticated route
\* (register, status, delete, media create) with any other token is answered
\* 401 and changes nothing, in particular while the account is locked.
C28_TokenAdmission ==
  [][\A t \in 1..MaxAdmins :
       ~Authenticated(t) =>
         /\ \A id \in 1..MaxAdmins, isActive \in BOOLEAN :
              UpdateStatus(t, id, isActive) => res'.status = 401 /\ admins' = admins
         /\ \A id \in 1..MaxAdmins :
              DeleteAdmin(t, id) => res'.status = 401 /\ admins' = admins
         /\ \A role \in {"admin", "superadmin"} :
              Register(t, "editor", "editor@pixelarts.com", "Editor1x", role)
                => res'.status = 401 /\ admins' = admins
         /\ CreateMedia(t, PlainCreate) => res'.status = 401 /\ media' = media
    ]_vars

\* C28 witness: the holder of a token whose account is active and locked has
\* sent a status request and has been refused
C28_Witness ==
  /\ req.op = "status"
  /\ req.token \in tokens
  /\ req.token \in DOMAIN admins
  /\ admins[req.token]["isActive"]
  /\ admins[req.token]["role"] = "superadmin"
  /\ Locked(admins[req.token], now)
  /\ res.status = 401

-----------------------------------------------------------------------------
(* Properties of the profile update *)

\* the requested username, or the requested email, belongs to another account
TakenByOther(token, username, email) ==
  \E id \in DOMAIN admins \ {token} :
    \/ username # "absent" /\ admins[id]["username"] = trim(username)
    \/ email # "absent" /\ admins[id]["email"] = normalizeEmail(email)

\* C29: Profile uniqueness check. A well-formed PUT /api/auth/profile request
\* of an authenticated admin is rejected with status 400 'Username or email
\* already taken' whenever the requested username or the requested email
\* already belongs to a different account, also when the request carries both
\* fields and only one of them is taken; the caller's account is unchanged.
C29_ProfileUniqueness ==
  [][(/\ req'.op = "profile"
      /\ Authenticated(req'.token)
      /\ ProfileValid(req'.username)
      /\ TakenByOther(req'.token, req'.username, req'.email))
       => /\ res'.status = 400
          /\ res'.message = "Username or email already taken"
          /\ admins' = admins
    ]_vars

-----------------------------------------------------------------------------
(* Properties of the media listing *)

\* C30: Media listing is private. GET /api/media returns the media list only
\* to a request carrying a valid token of an account with role admin or
\* superadmin; a request without a token receives no media data.
C30_ListingPrivate ==
  (req.op = "listMedia" /\ Has(res, "data")) =>
    /\ Authenticated(req.token)
    /\ admins[req.token]["role"] \in {"admin", "superadmin"}

=============================================================================
